---- MODULE Spec2Model ----
(***************************************************************************)
(* Whitted ray tracer (WhittedRayTracer.rt.slang): one rayGen invocation   *)
(* for one pixel, with the scatter-ray and shadow-ray shaders that its     *)
(* TraceRay calls run.                                                     *)
(*                                                                         *)
(* Units.  float3 values are 3-tuples of integers.  Colours and radiance   *)
(* are in hundredths (0.25 is 25); roughness is in hundredths (0.19 is     *)
(* 19); angles and cone widths are in hundredths; throughput and           *)
(* distances are whole numbers.  Results of framework calls that are not   *)
(* part of the shader (material evaluation, light sampling, curvature,     *)
(* environment-map lookups, traversal outcome) are inputs of the actions.  *)
(***************************************************************************)
EXTENDS Integers, Sequences, FiniteSets, TLC

VARIABLES
    \* static configuration (host defines and constant buffer)
    kMaxBounces, kTexLODMode, kRayConeMode, kUseAnalyticLights,
    kUseEmissiveLights, kUseEnvLight, kUseEnvBackground,
    kUseRoughnessToVariance, kVisualizeSurfaceSpread,
    gScreenSpacePixelSpreadAngle, lightCount,
    \* rayGen invocation
    pc, worldPosValid, linearRoughness, outColor, rayData, depth,
    gOutputColor,
    \* emitted and direct analytic light of the primary hit
    sd,
    \* the shader stage run by the last TraceRay of the path loop, with its inputs
    hit,
    \* bookkeeping of what the invocation has done
    scatterRays, shadowRays, envLookups, rayConeUsed, rayDiffUsed,
    \* the dispatch: the pixel of the running invocation, the saved state of
    \* the invocations that are not running, the writes made to each
    \* location of the output texture
    launchIndex, contexts, outputLog,
    \* roughnessToSpread applied to two roughness values
    rsPc, rsR1, rsR2, rsOut1, rsOut2,
    \* one traceShadowRay call: position, payload, the intersections the
    \* traversal still has to report, whether shadowMiss ran, the result
    shPc, shRayData, shCandidates, shMissRan, shResult,
    \* the GodRays pass: position, the object's members, the render
    \* context's state stacks, the serializer's values, and what the last
    \* calls did
    grPc, godRays, renderContext, serializer, grObserved

cfgVars == <<kMaxBounces, kTexLODMode, kRayConeMode, kUseAnalyticLights,
             kUseEmissiveLights, kUseEnvLight, kUseEnvBackground,
             kUseRoughnessToVariance, kVisualizeSurfaceSpread,
             gScreenSpacePixelSpreadAngle, lightCount>>

vars == <<kMaxBounces, kTexLODMode, kRayConeMode, kUseAnalyticLights,
          kUseEmissiveLights, kUseEnvLight, kUseEnvBackground,
          kUseRoughnessToVariance, kVisualizeSurfaceSpread,
          gScreenSpacePixelSpreadAngle, lightCount,
          pc, worldPosValid, linearRoughness, outColor, rayData, depth,
          gOutputColor, sd, hit,
          scatterRays, shadowRays, envLookups, rayConeUsed, rayDiffUsed,
          launchIndex, contexts, outputLog,
          rsPc, rsR1, rsR2, rsOut1, rsOut2,
          shPc, shRayData, shCandidates, shMissRan, shResult,
          grPc, godRays, renderContext, serializer, grObserved>>

\* the state of one rayGen invocation
locals == <<pc, worldPosValid, linearRoughness, outColor, rayData, depth,
            gOutputColor, sd, hit, scatterRays, shadowRays, envLookups,
            rayConeUsed, rayDiffUsed>>

rsVars == <<rsPc, rsR1, rsR2, rsOut1, rsOut2>>

shVars == <<shPc, shRayData, shCandidates, shMissRan, shResult>>

grVars == <<grPc, godRays, renderContext, serializer, grObserved>>

\* what a rayGen invocation leaves alone
auxVars == <<launchIndex, contexts, rsVars, shVars, grVars>>

----------------------------------------------------------------------------
(* Bounds of the model *)

MaxBouncesBound == 1
MaxLights == 1
NumPixels == 2

\* the launch indices of a dispatch (a one-dimensional launch grid)
Pixels == 1..NumPixels

(* Input values *)

TexLODModes == {"Mip0", "RayCones", "RayDiffsIsotropic", "RayDiffsAnisotropic"}
RayConeModes == {"RayTracingGems1", "Combo", "Unified"}
RayDiffModes == {"RayDiffsIsotropic", "RayDiffsAnisotropic"}

Zero3 == <<0, 0, 0>>

(* What the G-buffer can hold for a pixel with a valid primary hit:        *)
(* material and geometry of the hit, its distance from the camera and the  *)
(* surface spread angle that the ray-cone mode loads or computes for it.   *)
GBufferPixels ==
    { [emissive |-> Zero3, specular |-> <<1, 1, 1>>, linearRoughness |-> 0,
       normal |-> <<0, 0, 1>>, rayOrigin |-> <<1, 1, 1>>, hitT |-> 2,
       surfaceSpread |-> 0],
      [emissive |-> <<5, 0, 2>>, specular |-> <<1, 2, 3>>, linearRoughness |-> 19,
       normal |-> <<0, 1, 0>>, rayOrigin |-> <<1, 1, 1>>, hitT |-> 1,
       surfaceSpread |-> 1],
      [emissive |-> <<5, 0, 2>>, specular |-> <<1, 1, 1>>, linearRoughness |-> 20,
       normal |-> <<0, 0, 1>>, rayOrigin |-> <<1, 1, 1>>, hitT |-> 1,
       surfaceSpread |-> -1] }

(* The surfaces a scatter ray can hit: distance along the ray, the spread  *)
(* angle computeSpreadAngleFromCurvatureIso gives there (negative on a     *)
(* concave surface), and the shading data of the hit.                      *)
Surfaces ==
    { [hitT |-> 1, curvatureSpread |-> 0, roughness |-> 0, emissive |-> Zero3,
       specular |-> <<1, 1, 1>>, normal |-> <<0, 0, 1>>, rayOrigin |-> <<2, 2, 2>>],
      [hitT |-> 2, curvatureSpread |-> -1, roughness |-> 50,
       emissive |-> <<5, 0, 2>>, specular |-> <<1, 2, 3>>,
       normal |-> <<0, 1, 0>>, rayOrigin |-> <<3, 3, 3>>] }

LightVals == {<<3, 3, 3>>}
EnvVals == {Zero3, <<7, 8, 9>>}
CameraDir == <<0, 0, -1>>
PixelSpreadVals == {1}

----------------------------------------------------------------------------
(* float3 arithmetic *)

VAdd(a, b) == <<a[1] + b[1], a[2] + b[2], a[3] + b[3]>>
VSub(a, b) == <<a[1] - b[1], a[2] - b[2], a[3] - b[3]>>
VMul(a, b) == <<a[1] * b[1], a[2] * b[2], a[3] * b[3]>>
VScale(k, a) == <<k * a[1], k * a[2], k * a[3]>>
dot(a, b) == a[1] * b[1] + a[2] * b[2] + a[3] * b[3]
VGeq(a, b) == a[1] >= b[1] /\ a[2] >= b[2] /\ a[3] >= b[3]

reflect(i, n) == VSub(i, VScale(2 * dot(n, i), n))

kDefaultBackgroundColor == <<25, 25, 25>>
kRoughnessThreshold == 19
Opaque == 100

----------------------------------------------------------------------------
(* Ray cone (TexLODHelpers): a width and a spread angle *)

RayCone_create(width, angle) == [width |-> width, spreadAngle |-> angle]

\* RayCone.propagate(surfaceSpreadAngle, hitT)
propagate(rc, surfaceSpreadAngle, hitT) ==
    RayCone_create(rc.width + rc.spreadAngle * hitT,
                   rc.spreadAngle + surfaceSpreadAngle)

(* roughnessToSpread, in fixed point: roughness and result in hundredths,  *)
(* s and sigma2 in units of 1/10000.  The float division by 1 - s = 0      *)
(* gives +infinity, written FltInf.                                        *)

FltInf == 1000000
SUnit == 10000

RECURSIVE SqrtSearch(_, _, _)
SqrtSearch(x, lo, hi) ==
    IF lo >= hi THEN lo
    ELSE LET mid == (lo + hi + 1) \div 2
         IN IF mid * mid <= x THEN SqrtSearch(x, mid, hi)
                              ELSE SqrtSearch(x, lo, mid - 1)

\* sqrt of a value in units of 1/10000, result in hundredths
sqrt(x) == SqrtSearch(x, 0, 40000)

\* s = alpha * alpha with alpha = linearRoughness^2, in 1/SUnit
spreadS(r) ==
    LET alpha == r * r
    IN (alpha * alpha) \div SUnit

\* the denominator 1.0f - s of the division in roughnessToSpread
spreadDenominator(r) == SUnit - spreadS(r)

\* roughnessToSpread with the operands of the division swapped
roughnessToSpread_swapped(r) ==
    LET alpha == r * r
        s == (alpha * alpha) \div SUnit
    IN IF s = 0 THEN FltInf
       ELSE LET sigma2 == (((SUnit - s) * SUnit) \div s) \div 2
            IN 2 * sqrt(sigma2)

roughnessToSpread(r) ==
    LET s == spreadS(r)
    IN IF spreadDenominator(r) <= 0 THEN FltInf
       ELSE LET sigma2 == ((s * SUnit) \div spreadDenominator(r)) \div 2
            IN 2 * sqrt(sigma2)

----------------------------------------------------------------------------
(* Payloads *)

NoPayload == [created |-> FALSE]
NoHit == [kind |-> "none"]
NoShading == [emissive |-> Zero3, direct |-> Zero3]

ScatterRayData_create ==
    [created |-> TRUE,
     terminated |-> FALSE,
     pathLength |-> 0,
     radiance |-> Zero3,
     thp |-> <<1, 1, 1>>,
     origin |-> Zero3,
     direction |-> Zero3,
     rayCone |-> RayCone_create(0, 0),
     rayDiff |-> "default"]

(* Shadow ray (ray index 1).  reached: the ray gets to the light distance  *)
(* without an accepted hit, so the miss shader runs.                       *)

shadowMiss(sr) == [sr EXCEPT !.visible = TRUE]

traceShadowRay(reached) ==
    LET sr == [visible |-> FALSE]
    IN (IF reached THEN shadowMiss(sr) ELSE sr).visible

(* One light sample: valid is sampleLight's result and the upper-hemisphere*)
(* test; value is evalBSDFCosine * Li * invPdf.                            *)

LightSamples == [valid : BOOLEAN, reached : BOOLEAN, value : LightVals]
SampleSeqs == [1..lightCount -> LightSamples]

RECURSIVE evalDirectAnalyticFrom(_, _)
evalDirectAnalyticFrom(samples, lightIndex) ==
    IF lightIndex > lightCount THEN [contribution |-> Zero3, rays |-> 0]
    ELSE LET rest == evalDirectAnalyticFrom(samples, lightIndex + 1)
             ls == samples[lightIndex]
         IN IF ls.valid
            THEN LET V == traceShadowRay(ls.reached)
                 IN [contribution |->
                         VAdd(IF V THEN ls.value ELSE Zero3, rest.contribution),
                     rays |-> rest.rays + 1]
            ELSE rest

evalDirectAnalytic(samples) == evalDirectAnalyticFrom(samples, 1)

generateReflectionRay(specular, rayOrigin, rayDir, normal, rd) ==
    [rd EXCEPT !.origin = rayOrigin,
               !.direction = reflect(rayDir, normal),
               !.thp = VScale((specular[1] + specular[2] + specular[3]) \div 3, @)]

----------------------------------------------------------------------------
(* Which texture-LOD branch each stage takes for the static TEXLOD_MODE *)

\* rayGen's seeding of the payload (lines 468, 528) and its background LOD
seedBranch ==
    IF kTexLODMode = "RayCones" THEN "RayCones"
    ELSE IF kTexLODMode = "RayDiffsIsotropic" \/ kTexLODMode = "RayDiffsAnisotropic"
    THEN "RayDiffs"
    ELSE "Mip0"

\* missBranch with a plain else in place of the else-if
missBranch_else ==
    IF kTexLODMode = "RayCones" THEN "RayCones" ELSE "RayDiffs"

\* scatterMiss's environment-map LOD (lines 253, 257)
missBranch ==
    IF kTexLODMode = "RayCones" THEN "RayCones"
    ELSE IF kTexLODMode = "RayDiffsIsotropic" \/ kTexLODMode = "RayDiffsAnisotropic"
    THEN "RayDiffs"
    ELSE "Mip0"

\* scatterClosestHit's shading-data preparation (lines 294, 299, 322)
hitBranch ==
    IF kTexLODMode = "Mip0" THEN "Mip0"
    ELSE IF kTexLODMode = "RayCones" THEN "RayCones"
    ELSE "RayDiffs"

----------------------------------------------------------------------------
(* Ray index 0: scatter ray *)

\* scatterMiss assigning the environment light in place of adding it
scatterMiss_reset(rd, Le) ==
    LET t == [rd EXCEPT !.terminated = TRUE]
    IN IF kUseEnvLight
       THEN [t EXCEPT !.radiance = VMul(rd.thp, Le)]
       ELSE t

\* Le is gScene.envMap.eval(WorldRayDirection(), lod)
scatterMiss(rd, Le) ==
    LET t == [rd EXCEPT !.terminated = TRUE]
    IN IF kUseEnvLight
       THEN [t EXCEPT !.radiance = VAdd(@, VMul(rd.thp, Le))]
       ELSE t

(* Inputs of a closest hit: hitT is RayTCurrent(); curvatureSpread is the  *)
(* result of computeSpreadAngleFromCurvatureIso; roughness, emissive and   *)
(* specular come from the shading data; rayOrigin is                       *)
(* sd.computeNewRayOrigin(); normal is v.normalW; samples are the light    *)
(* samples of evalDirectAnalytic.                                          *)

\* hitSurfaceSpreadAngle taking the curvature term in every ray-cone mode
hitSurfaceSpreadAngle_anyMode(h) ==
    h.curvatureSpread
    + (IF kUseRoughnessToVariance THEN roughnessToSpread(h.roughness) ELSE 0)

\* surfaceSpreadAngle at a closest hit in RayCones mode
hitSurfaceSpreadAngle(h) ==
    (IF kRayConeMode \in {"Combo", "Unified"} THEN h.curvatureSpread ELSE 0)
    + (IF kUseRoughnessToVariance THEN roughnessToSpread(h.roughness) ELSE 0)

\* coneAtHit with the arguments of propagate swapped
coneAtHit_swapped(rc, hitT) == propagate(rc, hitT, 0)

\* the cone propagated (only) to the hit point
coneAtHit(rc, hitT) == propagate(rc, 0, hitT)

\* the cone after the bounce on the hit surface
coneAfterBounce(rc, surfaceSpreadAngle) == propagate(rc, surfaceSpreadAngle, 0)

\* the texture-LOD part of scatterClosestHit
hitTexLOD(rd, h) ==
    IF hitBranch = "Mip0" THEN rd
    ELSE IF hitBranch = "RayCones"
    THEN [rd EXCEPT !.rayCone =
              coneAfterBounce(coneAtHit(@, h.hitT), hitSurfaceSpreadAngle(h))]
    ELSE [rd EXCEPT !.rayDiff = "reflected"]

\* hitTerminates without the depth test
hitTerminates_never(rd) == FALSE

\* hitTerminates with > in place of >=
hitTerminates_late(rd) == rd.pathLength > kMaxBounces

\* whether the closest hit terminates the path on the depth limit
hitTerminates(rd) == rd.pathLength >= kMaxBounces

\* scatterClosestHit adding the emitted light after the depth test
scatterClosestHit_emissiveAfterTest(rd, h, rayDir) ==
    LET a == hitTexLOD(rd, h)
    IN IF hitTerminates(a)
       THEN [a EXCEPT !.terminated = TRUE]
       ELSE LET b == IF kUseEmissiveLights
                     THEN [a EXCEPT !.radiance = VAdd(@, VMul(a.thp, h.emissive))]
                     ELSE a
                Lr == evalDirectAnalytic(h.samples).contribution
                c == IF kUseAnalyticLights
                     THEN [b EXCEPT !.radiance = VAdd(@, VMul(b.thp, Lr))]
                     ELSE b
                d == generateReflectionRay(h.specular, h.rayOrigin, rayDir,
                                           h.normal, c)
            IN [d EXCEPT !.pathLength = @ + 1]

\* rayDir is WorldRayDirection(), the direction the payload held when traced
scatterClosestHit(rd, h, rayDir) ==
    LET a == hitTexLOD(rd, h)
        b == IF kUseEmissiveLights
             THEN [a EXCEPT !.radiance = VAdd(@, VMul(a.thp, h.emissive))]
             ELSE a
    IN IF hitTerminates(b)
       THEN [b EXCEPT !.terminated = TRUE]
       ELSE LET Lr == evalDirectAnalytic(h.samples).contribution
                c == IF kUseAnalyticLights
                     THEN [b EXCEPT !.radiance = VAdd(@, VMul(b.thp, Lr))]
                     ELSE b
                d == generateReflectionRay(h.specular, h.rayOrigin, rayDir,
                                           h.normal, c)
            IN [d EXCEPT !.pathLength = @ + 1]

\* shadow rays traced by one closest hit
hitShadowRays(rd, h) ==
    IF ~hitTerminates(rd) /\ kUseAnalyticLights
    THEN evalDirectAnalytic(h.samples).rays
    ELSE 0

----------------------------------------------------------------------------
(* Initial state: the host has set the defines, rayGen has not started *)

(* The invocation's pixel either has a valid primary hit (worldPos.w # 0)  *)
(* or not, as the G-buffer says.  A define or scene value that no          *)
(* statement reads under the chosen configuration is held at one value:    *)
(* the ray-cone defines outside RayCones mode, the light count without     *)
(* analytic lights, USE_ENV_BACKGROUND for a pixel with a valid hit.       *)
Read(isRead, value, unread) == isRead \/ value = unread

\* roughnessToSpread is not being applied
RoughnessOff ==
    /\ rsPc = "off"
    /\ rsR1 = 0
    /\ rsR2 = 0
    /\ rsOut1 = 0
    /\ rsOut2 = 0

\* no traceShadowRay call is being followed
ShadowOff ==
    /\ shPc = "off"
    /\ shRayData = [visible |-> FALSE]
    /\ shCandidates = <<>>
    /\ shMissRan = FALSE
    /\ shResult = FALSE

\* no GodRays pass exists
GodRaysOff ==
    /\ grPc = "off"
    /\ godRays = <<>>
    /\ renderContext = <<>>
    /\ serializer = <<>>
    /\ grObserved = <<>>

AuxOff == RoughnessOff /\ ShadowOff /\ GodRaysOff

Init ==
    /\ AuxOff
    /\ kMaxBounces \in 0..MaxBouncesBound
    /\ kTexLODMode \in TexLODModes
    /\ kRayConeMode \in RayConeModes
    /\ kUseAnalyticLights \in BOOLEAN
    /\ kUseEmissiveLights \in BOOLEAN
    /\ kUseEnvLight \in BOOLEAN
    /\ kUseEnvBackground \in BOOLEAN
    /\ kUseRoughnessToVariance \in BOOLEAN
    /\ kVisualizeSurfaceSpread \in BOOLEAN
    /\ gScreenSpacePixelSpreadAngle \in PixelSpreadVals
    /\ lightCount \in 0..MaxLights
    /\ worldPosValid \in BOOLEAN
    /\ Read(kTexLODMode = "RayCones",
            <<kRayConeMode, kUseRoughnessToVariance, kVisualizeSurfaceSpread>>,
            <<"RayTracingGems1", FALSE, FALSE>>)
    /\ Read(kUseAnalyticLights, lightCount, 0)
    /\ Read(~worldPosValid, kUseEnvBackground, FALSE)
    /\ pc = "start"
    /\ linearRoughness = 0
    /\ outColor = Zero3
    /\ rayData = NoPayload
    /\ depth = 0
    /\ gOutputColor = <<>>
    /\ sd = NoShading
    /\ hit = NoHit
    /\ scatterRays = 0
    /\ shadowRays = 0
    /\ envLookups = 0
    /\ rayConeUsed = FALSE
    /\ rayDiffUsed = FALSE
    /\ launchIndex = 1
    /\ contexts = <<>>
    /\ outputLog = [p \in Pixels |-> <<>>]

float4(c, a) == <<c[1], c[2], c[3], a>>

\* outputIndex that is the first location for every invocation
outputIndex_first == CHOOSE p \in Pixels : \A q \in Pixels : p <= q

\* the location of gOutputColor that rayGen writes (lines 521, 596)
outputIndex == launchIndex

\* gOutputColor[launchIndex] = value, recorded with the writing invocation
writeOutput(value) ==
    [outputLog EXCEPT ![outputIndex] =
         Append(@, [by |-> launchIndex, value |-> value])]

\* isValidPrimaryHit with the test inverted
isValidPrimaryHit_inverted == ~worldPosValid

\* worldPos.w != 0.f: the pixel represents a valid primary hit (line 429)
isValidPrimaryHit == worldPosValid

\* backgroundColor that always takes the environment map
backgroundColor_env(Le) == Le

\* the colour of a background pixel (lines 575-593)
backgroundColor(Le) == IF kUseEnvBackground THEN Le ELSE kDefaultBackgroundColor

\* the light samples a call of evalDirectAnalytic can draw
AnalyticSamples == IF kUseAnalyticLights THEN SampleSeqs ELSE {<<>>}

(* rayGen, background pixel (worldPos.w = 0): lines 572-596 *)
RayGenBackground ==
    /\ pc = "start"
    /\ ~isValidPrimaryHit
    /\ \E Le \in EnvVals :
         /\ outColor' = backgroundColor(Le)
         /\ gOutputColor' = float4(outColor', Opaque)
         /\ outputLog' = writeOutput(gOutputColor')
    /\ envLookups' = IF kUseEnvBackground THEN envLookups + 1 ELSE envLookups
    /\ pc' = "done"
    /\ UNCHANGED <<cfgVars, worldPosValid, linearRoughness, rayData, depth, sd,
                   hit, scatterRays, shadowRays, rayConeUsed, rayDiffUsed>>
    /\ UNCHANGED auxVars

\* surfaceSpreadAngle of the primary hit in RayCones mode (lines 471-513);
\* gbufferSpread is the value the ray-cone mode loads or computes
primarySurfaceSpreadAngle(decoded, gbufferSpread, roughness) ==
    IF decoded
    THEN gbufferSpread
         + (IF kUseRoughnessToVariance THEN roughnessToSpread(roughness) ELSE 0)
    ELSE 0

\* the colour written by the surface-spread visualization (lines 516-520)
visualizeColor(surfaceSpreadAngle) ==
    <<10 * (IF surfaceSpreadAngle > 0 THEN surfaceSpreadAngle ELSE 0),
      10 * (IF surfaceSpreadAngle < 0 THEN -surfaceSpreadAngle ELSE 0),
      10 * (IF surfaceSpreadAngle = 0 THEN 100 ELSE 0),
      10 * Opaque>>

\* outColor of a valid primary hit before the path loop (lines 456, 460)
primaryColor(emissive, direct) ==
    VAdd(emissive, IF kUseAnalyticLights THEN direct ELSE Zero3)

(* rayGen, valid primary hit, up to the path loop: lines 429-558 *)
RayGenPrimary ==
    /\ pc = "start"
    /\ isValidPrimaryHit
    /\ \E g \in GBufferPixels, samples \in AnalyticSamples, decoded \in BOOLEAN :
         LET direct == evalDirectAnalytic(samples)
             rd == generateReflectionRay(g.specular, g.rayOrigin, CameraDir,
                                         g.normal, ScatterRayData_create)
             ssa == primarySurfaceSpreadAngle(decoded, g.surfaceSpread,
                                              g.linearRoughness)
             visualize == seedBranch = "RayCones" /\ decoded
                          /\ kVisualizeSurfaceSpread
             rc == RayCone_create(0, gScreenSpacePixelSpreadAngle)
         IN /\ linearRoughness' = g.linearRoughness
            /\ sd' = [emissive |-> g.emissive,
                      direct |-> IF kUseAnalyticLights THEN direct.contribution
                                                       ELSE Zero3]
            /\ outColor' = primaryColor(g.emissive, direct.contribution)
            /\ shadowRays' = shadowRays
                             + (IF kUseAnalyticLights THEN direct.rays ELSE 0)
            /\ IF visualize
               THEN /\ rayData' = rd
                    /\ gOutputColor' = visualizeColor(ssa)
                    /\ outputLog' = writeOutput(gOutputColor')
                    /\ pc' = "return"
                    /\ UNCHANGED <<rayConeUsed, rayDiffUsed>>
               ELSE /\ rayData' =
                         IF seedBranch = "RayCones"
                         THEN [rd EXCEPT !.rayCone = propagate(rc, ssa, g.hitT)]
                         ELSE IF seedBranch = "RayDiffs"
                         THEN [rd EXCEPT !.rayDiff =
                                   IF decoded THEN "reflected" ELSE "propagated"]
                         ELSE rd
                    /\ rayConeUsed' = (seedBranch = "RayCones")
                    /\ rayDiffUsed' = (seedBranch = "RayDiffs")
                    /\ pc' = "loop"
                    /\ UNCHANGED <<gOutputColor, outputLog>>
    /\ depth' = 0
    /\ UNCHANGED <<cfgVars, worldPosValid, hit, scatterRays, envLookups>>
    /\ UNCHANGED auxVars

\* traceNext without the loop condition
traceNext_unbounded == linearRoughness <= kRoughnessThreshold

\* traceNext with || in place of && in the loop condition
traceNext_or ==
    /\ linearRoughness <= kRoughnessThreshold
    /\ (depth <= kMaxBounces \/ ~rayData.terminated)

\* traceNext with < in place of <= in the roughness test
traceNext_strict ==
    /\ linearRoughness < kRoughnessThreshold
    /\ depth <= kMaxBounces
    /\ ~rayData.terminated

\* the condition under which rayGen traces one more scatter ray (lines 559, 562)
traceNext ==
    /\ linearRoughness <= kRoughnessThreshold
    /\ depth <= kMaxBounces
    /\ ~rayData.terminated

(* One iteration of the path loop whose scatter ray misses: traceScatterRay*)
(* runs scatterMiss, then depth++.                                         *)
TraceScatterMiss ==
    /\ pc = "loop"
    /\ traceNext
    /\ \E Le \in EnvVals :
         /\ rayData' = scatterMiss(rayData, Le)
         /\ hit' = [kind |-> "miss"]
    /\ envLookups' = IF kUseEnvLight THEN envLookups + 1 ELSE envLookups
    /\ rayConeUsed' = (rayConeUsed \/ (kUseEnvLight /\ missBranch = "RayCones"))
    /\ rayDiffUsed' = (rayDiffUsed \/ (kUseEnvLight /\ missBranch = "RayDiffs"))
    /\ scatterRays' = scatterRays + 1
    /\ depth' = depth + 1
    /\ UNCHANGED <<cfgVars, pc, worldPosValid, linearRoughness, outColor,
                   gOutputColor, outputLog, sd, shadowRays>>
    /\ UNCHANGED auxVars

(* One iteration of the path loop whose scatter ray hits geometry:         *)
(* traceScatterRay runs scatterClosestHit, then depth++.                   *)
TraceScatterHit ==
    /\ pc = "loop"
    /\ traceNext
    /\ \E surface \in Surfaces, samples \in AnalyticSamples :
         LET h == surface @@ [samples |-> samples]
         IN /\ rayData' = scatterClosestHit(rayData, h, rayData.direction)
            /\ shadowRays' = shadowRays + hitShadowRays(rayData, h)
            /\ hit' = [kind |-> "closest",
                       hitT |-> h.hitT,
                       rayOrigin |-> h.rayOrigin,
                       normal |-> h.normal,
                       emissive |-> h.emissive,
                       Lr |-> evalDirectAnalytic(samples).contribution,
                       surfaceSpreadAngle |-> hitSurfaceSpreadAngle(h),
                       lodCone |-> IF hitBranch = "RayCones"
                                   THEN coneAtHit(rayData.rayCone, h.hitT)
                                   ELSE rayData.rayCone]
    /\ rayConeUsed' = (rayConeUsed \/ hitBranch = "RayCones")
    /\ rayDiffUsed' = (rayDiffUsed \/ hitBranch = "RayDiffs")
    /\ scatterRays' = scatterRays + 1
    /\ depth' = depth + 1
    /\ UNCHANGED <<cfgVars, pc, worldPosValid, linearRoughness, outColor,
                   gOutputColor, outputLog, sd, envLookups>>
    /\ UNCHANGED auxVars

(* rayGen after the path loop: lines 569-570 and 596 *)
RayGenStore ==
    /\ pc = "loop"
    /\ ~traceNext
    /\ outColor' = VAdd(outColor, rayData.radiance)
    /\ gOutputColor' = float4(outColor', Opaque)
    /\ outputLog' = writeOutput(gOutputColor')
    /\ pc' = "done"
    /\ UNCHANGED <<cfgVars, worldPosValid, linearRoughness, rayData, depth, sd,
                   hit, scatterRays, shadowRays, envLookups, rayConeUsed,
                   rayDiffUsed>>
    /\ UNCHANGED auxVars

Next ==
    \/ RayGenBackground
    \/ RayGenPrimary
    \/ TraceScatterMiss
    \/ TraceScatterHit
    \/ RayGenStore

Spec == Init /\ [][Next]_vars

----------------------------------------------------------------------------
(* Properties *)

\* a step of the path loop whose scatter ray ran scatterClosestHit
ClosestHitStep == scatterRays' = scatterRays + 1 /\ hit'.kind = "closest"

\* C1: the path loop never makes more than MAX_BOUNCES + 1 traceScatterRay
\* calls, whatever the hit/miss outcomes.
C1_SegmentsBounded == scatterRays <= kMaxBounces + 1

C1_Witness ==
    /\ pc = "done"
    /\ kMaxBounces >= 1
    /\ scatterRays = kMaxBounces + 1

\* C2: once a scatter ray has missed, the payload is terminated and rayGen
\* traces no further scatter ray, also with depth still within MAX_BOUNCES.
C2_TerminatesOnFirstMiss ==
    [][hit.kind = "miss" => rayData.terminated /\ scatterRays' = scatterRays]_vars

C2_Witness ==
    /\ pc = "done"
    /\ hit.kind = "miss"
    /\ depth <= kMaxBounces
    /\ scatterRays = 1

\* C3: a pixel without a valid primary hit does at most one environment
\* lookup, traces no scatter ray and no shadow ray, and goes from the start
\* straight to the written output.
C3_BackgroundIsTerminal ==
    ~worldPosValid =>
        /\ scatterRays = 0
        /\ shadowRays = 0
        /\ envLookups <= 1
        /\ rayData = NoPayload
        /\ pc \in {"start", "done"}
        /\ (pc = "done" <=> gOutputColor # <<>>)

C3_Witness ==
    /\ ~worldPosValid
    /\ pc = "done"
    /\ envLookups = 1
    /\ kUseAnalyticLights
    /\ lightCount > 0

\* C4: a pixel without a valid primary hit, with USE_ENV_BACKGROUND off,
\* outputs the default background colour (0.25, 0.25, 0.25) with alpha 1.0
\* under every texture-LOD mode, ray-cone mode and light configuration.
C4_DefaultBackground ==
    (~worldPosValid /\ ~kUseEnvBackground /\ pc = "done") =>
        gOutputColor = <<25, 25, 25, 100>>

C4_Witness ==
    /\ ~worldPosValid
    /\ ~kUseEnvBackground
    /\ pc = "done"
    /\ kTexLODMode = "RayCones"
    /\ kRayConeMode = "Unified"
    /\ kUseEnvLight
    /\ kUseAnalyticLights

\* C5 as stated, for an invocation that has run to its final store: a pixel
\* with a valid primary hit has traced a scatter ray if and only if the
\* primary roughness is below 0.19, and otherwise adds no scatter radiance.
C5_Original ==
    (worldPosValid /\ pc = "done") =>
        /\ (scatterRays >= 1) <=> (linearRoughness < kRoughnessThreshold)
        /\ (linearRoughness >= kRoughnessThreshold => rayData.radiance = Zero3)

\* C5 amended: an invocation with a valid primary hit that reaches the path
\* loop traces a scatter ray if and only if the primary roughness is at most
\* 0.19; above 0.19 it traces none and the scatter radiance it adds is zero;
\* the surface-spread visualization returns without tracing any.
C5_ScatterIffAtMostThreshold ==
    /\ (scatterRays >= 1 => worldPosValid /\ linearRoughness <= kRoughnessThreshold)
    /\ (worldPosValid /\ pc = "done") =>
           /\ (scatterRays >= 1) <=> (linearRoughness <= kRoughnessThreshold)
           /\ (linearRoughness > kRoughnessThreshold =>
                   /\ rayData.radiance = Zero3
                   /\ gOutputColor = float4(outColor, Opaque))
    /\ (pc = "return" => scatterRays = 0)

C5_Witness ==
    /\ worldPosValid
    /\ pc = "done"
    /\ linearRoughness = kRoughnessThreshold
    /\ scatterRays >= 1

\* C6: a closest hit with pathLength < MAX_BOUNCES leaves terminated false,
\* writes the new origin and the reflected direction and adds exactly 1 to
\* pathLength; with pathLength >= MAX_BOUNCES it sets terminated and leaves
\* pathLength, origin, direction and throughput as they were.
C6_HitContinuesBelowMaxBounces ==
    [][ClosestHitStep =>
         IF rayData.pathLength < kMaxBounces
         THEN /\ ~rayData'.terminated
              /\ rayData'.origin = hit'.rayOrigin
              /\ rayData'.direction = reflect(rayData.direction, hit'.normal)
              /\ rayData'.pathLength = rayData.pathLength + 1
         ELSE /\ rayData'.terminated
              /\ rayData'.pathLength = rayData.pathLength
              /\ rayData'.origin = rayData.origin
              /\ rayData'.direction = rayData.direction
              /\ rayData'.thp = rayData.thp]_vars

C6_Witness ==
    /\ hit.kind = "closest"
    /\ rayData.terminated
    /\ kMaxBounces >= 1
    /\ rayData.pathLength = kMaxBounces
    /\ rayData.origin = hit.rayOrigin

\* C7: the payload's radiance starts at zero when the payload is created and
\* every later step leaves each component at least as large as before.
C7_RadianceMonotonic ==
    [][/\ (~rayData.created /\ rayData'.created) => rayData'.radiance = Zero3
       /\ (rayData.created /\ VGeq(rayData.thp, Zero3)) =>
              /\ rayData'.created
              /\ VGeq(rayData'.radiance, rayData.radiance)]_vars

C7_Witness ==
    /\ pc = "done"
    /\ scatterRays >= 2
    /\ hit.kind = "miss"
    /\ kUseEnvLight
    /\ rayData.radiance = <<5, 0, 2>>

\* C8 as stated: over the whole path exactly one of the payload's rayCone and
\* rayDiff is written or read after creation.
C8_Original ==
    (worldPosValid /\ pc = "done") =>
        \/ (rayConeUsed /\ ~rayDiffUsed)
        \/ (rayDiffUsed /\ ~rayConeUsed)

\* C8 amended: at most one of the payload's rayCone and rayDiff is written or
\* read after creation: rayCone only in RayCones mode, rayDiff only in the two
\* RayDiffs modes, neither in Mip0 mode; a path that reaches the path loop in
\* RayCones or RayDiffs mode has used the field of its mode.
C8_AtMostOneLODField ==
    /\ ~(rayConeUsed /\ rayDiffUsed)
    /\ (rayConeUsed => kTexLODMode = "RayCones")
    /\ (rayDiffUsed => kTexLODMode \in RayDiffModes)
    /\ (pc \in {"loop", "done"} /\ worldPosValid) =>
           /\ (kTexLODMode = "RayCones" => rayConeUsed)
           /\ (kTexLODMode \in RayDiffModes => rayDiffUsed)
    /\ (rayData.created /\ ~rayConeUsed => rayData.rayCone = RayCone_create(0, 0))
    /\ (rayData.created /\ ~rayDiffUsed => rayData.rayDiff = "default")

C8_Witness ==
    /\ pc = "done"
    /\ kTexLODMode = "Mip0"
    /\ kUseEnvLight
    /\ hit.kind = "miss"
    /\ scatterRays >= 2
    /\ ~rayConeUsed
    /\ ~rayDiffUsed

\* C9 as stated: in RayCones mode every closest hit leaves the payload cone's
\* spreadAngle at least as large as before, for every ray-cone mode and
\* curvature.
C9_Original ==
    [][(ClosestHitStep /\ kTexLODMode = "RayCones") =>
           rayData'.rayCone.spreadAngle >= rayData.rayCone.spreadAngle]_vars

\* C9 amended: in RayCones mode every closest hit adds the hit's surface
\* spread angle (curvature term plus roughness term) to the cone's
\* spreadAngle, so the spreadAngle does not decrease when that angle is not
\* negative, as always in RayTracingGems1 mode; a negative curvature term in
\* Combo or Unified mode lowers it.
C9_SpreadAddsSurfaceAngle ==
    [][(ClosestHitStep /\ kTexLODMode = "RayCones") =>
           /\ rayData'.rayCone.spreadAngle =
                  rayData.rayCone.spreadAngle + hit'.surfaceSpreadAngle
           /\ (kRayConeMode = "RayTracingGems1" =>
                   /\ hit'.surfaceSpreadAngle >= 0
                   /\ rayData'.rayCone.spreadAngle >= rayData.rayCone.spreadAngle)]_vars

C9_Witness ==
    /\ hit.kind = "closest"
    /\ kTexLODMode = "RayCones"
    /\ kRayConeMode = "RayTracingGems1"
    /\ kUseRoughnessToVariance
    /\ hit.surfaceSpreadAngle > 0
    /\ scatterRays >= 2

\* C10: at a closest hit in RayCones mode the travel step gives
\* width' = width + spreadAngle * hitT with spreadAngle unchanged, and the
\* surface step changes the spreadAngle only.
C10_TravelThenSurface ==
    [][(ClosestHitStep /\ kTexLODMode = "RayCones") =>
           /\ hit'.lodCone.width =
                  rayData.rayCone.width + rayData.rayCone.spreadAngle * hit'.hitT
           /\ hit'.lodCone.spreadAngle = rayData.rayCone.spreadAngle
           /\ rayData'.rayCone.width = hit'.lodCone.width
           /\ rayData'.rayCone.spreadAngle =
                  hit'.lodCone.spreadAngle + hit'.surfaceSpreadAngle]_vars

C10_Witness ==
    /\ hit.kind = "closest"
    /\ kTexLODMode = "RayCones"
    /\ hit.hitT = 2
    /\ hit.lodCone.spreadAngle # 0
    /\ hit.surfaceSpreadAngle # 0
    /\ rayData.rayCone.width > hit.lodCone.spreadAngle * hit.hitT

----------------------------------------------------------------------------
(* No rayGen invocation is running *)

RayTracerOff ==
    /\ kMaxBounces = 0
    /\ kTexLODMode = "Mip0"
    /\ kRayConeMode = "RayTracingGems1"
    /\ kUseAnalyticLights = FALSE
    /\ kUseEmissiveLights = FALSE
    /\ kUseEnvLight = FALSE
    /\ kUseEnvBackground = FALSE
    /\ kUseRoughnessToVariance = FALSE
    /\ kVisualizeSurfaceSpread = FALSE
    /\ gScreenSpacePixelSpreadAngle = 0
    /\ lightCount = 0
    /\ pc = "off"
    /\ worldPosValid = FALSE
    /\ linearRoughness = 0
    /\ outColor = Zero3
    /\ rayData = NoPayload
    /\ depth = 0
    /\ gOutputColor = <<>>
    /\ sd = NoShading
    /\ hit = NoHit
    /\ scatterRays = 0
    /\ shadowRays = 0
    /\ envLookups = 0
    /\ rayConeUsed = FALSE
    /\ rayDiffUsed = FALSE
    /\ launchIndex = 0
    /\ contexts = <<>>
    /\ outputLog = <<>>

rtVars == <<cfgVars, pc, worldPosValid, linearRoughness, outColor, rayData,
            depth, gOutputColor, sd, hit, scatterRays, shadowRays, envLookups,
            rayConeUsed, rayDiffUsed, launchIndex, contexts, outputLog>>

----------------------------------------------------------------------------
(* roughnessToSpread as a function of the linear roughness: two roughness  *)
(* values in [0, 1], in hundredths, and the spread computed for each       *)

RoughnessOne == 100

InitSpread ==
    /\ RayTracerOff
    /\ ShadowOff
    /\ GodRaysOff
    /\ rsPc = "input"
    /\ rsR1 \in 0..RoughnessOne
    /\ rsR2 \in 0..RoughnessOne
    /\ rsOut1 = 0
    /\ rsOut2 = 0

ApplyRoughnessToSpread ==
    /\ rsPc = "input"
    /\ rsOut1' = roughnessToSpread(rsR1)
    /\ rsOut2' = roughnessToSpread(rsR2)
    /\ rsPc' = "applied"
    /\ UNCHANGED <<rtVars, shVars, grVars, rsR1, rsR2>>

NextSpread == ApplyRoughnessToSpread

SpecSpread == InitSpread /\ [][NextSpread]_vars

\* C11 as stated: for roughness values 0 <= r1 < r2 < 1 the spread of r1 is
\* strictly below the spread of r2, the denominator of the mapping is
\* 1 - r^8, and at r = 1 it is zero and there is no finite value.
C11_Original ==
    rsPc = "applied" =>
        /\ (rsR1 < rsR2 /\ rsR2 < RoughnessOne => rsOut1 < rsOut2)
        /\ LET pow8 == (spreadS(rsR1) * spreadS(rsR1)) \div SUnit
           IN spreadDenominator(rsR1) = SUnit - pow8
        /\ (rsR1 = RoughnessOne => rsOut1 = FltInf)

\* C11 amended: roughnessToSpread is non-decreasing in the linear roughness
\* over [0, 1) with finite values there, it is 0 at roughness 0 and grows
\* over the interval, and at roughness 1 the denominator 1 - s, with
\* s = roughness^4, is zero so that the result is not finite.
C11_SpreadNonDecreasing ==
    rsPc = "applied" =>
        /\ (rsR1 <= rsR2 /\ rsR2 < RoughnessOne =>
                /\ rsOut1 <= rsOut2
                /\ rsOut1 >= 0
                /\ rsOut2 < FltInf)
        /\ (rsR1 = 0 => rsOut1 = 0)
        /\ (rsR1 = 0 /\ rsR2 = RoughnessOne - 1 => rsOut1 < rsOut2)
        /\ (rsR1 = RoughnessOne <=> spreadDenominator(rsR1) = 0)
        /\ (rsR1 = RoughnessOne <=> rsOut1 = FltInf)

C11_Witness ==
    /\ rsPc = "applied"
    /\ rsR1 < rsR2
    /\ rsR2 < RoughnessOne
    /\ 0 < rsOut1
    /\ rsOut1 < rsOut2
    /\ rsOut2 < FltInf

----------------------------------------------------------------------------
(* One traceShadowRay call, stage by stage.  TraceRay is given             *)
(* RAY_FLAG_ACCEPT_FIRST_HIT_AND_END_SEARCH, hit group 1 (shadowAnyHit, no *)
(* closest-hit shader) and miss shader 1 (shadowMiss).  The traversal      *)
(* reports the intersections within [TMin, TMax] one by one: "opaque"      *)
(* geometry is accepted without an any-hit shader, "alphaKept" runs        *)
(* shadowAnyHit whose alpha test keeps the hit, "alphaIgnored" runs         *)
(* shadowAnyHit whose alpha test calls IgnoreHit.  The first accepted hit  *)
(* ends the search; the miss shader runs when no hit was accepted.         *)

MaxCandidates == 3

CandidateKinds == {"opaque", "alphaKept", "alphaIgnored"}

CandidateSeqs ==
    UNION { [1..n -> CandidateKinds] : n \in 0..MaxCandidates }

\* shadowAnyHit that marks the light visible when it ignores the hit
shadowAnyHit_setsVisible(sr, ignore) ==
    IF ignore THEN [sr EXCEPT !.visible = TRUE] ELSE sr

\* shadowAnyHit: the alpha test decides on IgnoreHit, the payload is not written
shadowAnyHit(sr, ignore) == sr

InitShadow ==
    /\ RayTracerOff
    /\ RoughnessOff
    /\ GodRaysOff
    /\ shPc = "call"
    /\ shRayData \in [visible : BOOLEAN]
    /\ shCandidates \in CandidateSeqs
    /\ shMissRan = FALSE
    /\ shResult = FALSE

\* lines 174-176: the payload is initialised and TraceRay starts
TraceShadowRayCall ==
    /\ shPc = "call"
    /\ shRayData' = [visible |-> FALSE]
    /\ shPc' = "traverse"
    /\ UNCHANGED <<rtVars, rsVars, grVars, shCandidates, shMissRan, shResult>>

\* an intersection with opaque geometry is accepted and ends the search
ShadowOpaqueHit ==
    /\ shPc = "traverse"
    /\ shCandidates # <<>>
    /\ Head(shCandidates) = "opaque"
    /\ shCandidates' = Tail(shCandidates)
    /\ shPc' = "end"
    /\ UNCHANGED <<rtVars, rsVars, grVars, shRayData, shMissRan, shResult>>

\* an intersection with non-opaque geometry runs shadowAnyHit
ShadowAnyHit ==
    /\ shPc = "traverse"
    /\ shCandidates # <<>>
    /\ Head(shCandidates) # "opaque"
    /\ LET ignore == Head(shCandidates) = "alphaIgnored"
       IN /\ shRayData' = shadowAnyHit(shRayData, ignore)
          /\ shPc' = IF ignore THEN "traverse" ELSE "end"
    /\ shCandidates' = Tail(shCandidates)
    /\ UNCHANGED <<rtVars, rsVars, grVars, shMissRan, shResult>>

\* no intersection was accepted: the miss shader runs
ShadowMiss ==
    /\ shPc = "traverse"
    /\ shCandidates = <<>>
    /\ shRayData' = shadowMiss(shRayData)
    /\ shMissRan' = TRUE
    /\ shPc' = "end"
    /\ UNCHANGED <<rtVars, rsVars, grVars, shCandidates, shResult>>

\* line 178: return rayData.visible
TraceShadowRayReturn ==
    /\ shPc = "end"
    /\ shResult' = shRayData.visible
    /\ shPc' = "returned"
    /\ UNCHANGED <<rtVars, rsVars, grVars, shRayData, shCandidates, shMissRan>>

NextShadow ==
    \/ TraceShadowRayCall
    \/ ShadowOpaqueHit
    \/ ShadowAnyHit
    \/ ShadowMiss
    \/ TraceShadowRayReturn

SpecShadow == InitShadow /\ [][NextShadow]_vars

\* C14: traceShadowRay returns true exactly when shadowMiss ran for its
\* ray.  The payload is not visible from the start of the trace until
\* shadowMiss runs, only the step that runs shadowMiss changes the visible
\* flag, and the value returned is the one evalDirectAnalytic uses for a
\* ray that reaches, or does not reach, the light.
C14_VisibleIffShadowMiss ==
    /\ [](shPc = "traverse" => ~shRayData.visible)
    /\ [](shPc = "end" => (shRayData.visible <=> shMissRan))
    /\ [](shPc = "returned" =>
            /\ shResult <=> shMissRan
            /\ shResult = traceShadowRay(shMissRan))
    /\ [][(shPc \in {"traverse", "end"}
             /\ shRayData'.visible # shRayData.visible)
            => (~shMissRan /\ shMissRan')]_vars

C14_Witness ==
    /\ shPc = "returned"
    /\ shResult
    /\ shMissRan
    /\ shCandidates = <<>>

----------------------------------------------------------------------------
(* A dispatch of NumPixels rayGen invocations, one per launch index, that  *)
(* the GPU interleaves in any order.  The statically configured shader is  *)
(* in RayCones mode so that both the visualization return and the path     *)
(* loop are taken; each pixel has its own G-buffer content.                *)

\* the state of an invocation that has not started
startLocals(valid) ==
    <<"start", valid, 0, Zero3, NoPayload, 0, <<>>, NoShading, NoHit,
      0, 0, 0, FALSE, FALSE>>

Running == "running"

\* the running invocation is in the state c
localsAre(c) ==
    /\ pc = c[1]
    /\ worldPosValid = c[2]
    /\ linearRoughness = c[3]
    /\ outColor = c[4]
    /\ rayData = c[5]
    /\ depth = c[6]
    /\ gOutputColor = c[7]
    /\ sd = c[8]
    /\ hit = c[9]
    /\ scatterRays = c[10]
    /\ shadowRays = c[11]
    /\ envLookups = c[12]
    /\ rayConeUsed = c[13]
    /\ rayDiffUsed = c[14]

\* the invocation resumed takes up the state c it was suspended in
resume(c) ==
    /\ pc' = c[1]
    /\ worldPosValid' = c[2]
    /\ linearRoughness' = c[3]
    /\ outColor' = c[4]
    /\ rayData' = c[5]
    /\ depth' = c[6]
    /\ gOutputColor' = c[7]
    /\ sd' = c[8]
    /\ hit' = c[9]
    /\ scatterRays' = c[10]
    /\ shadowRays' = c[11]
    /\ envLookups' = c[12]
    /\ rayConeUsed' = c[13]
    /\ rayDiffUsed' = c[14]

InitDispatch ==
    /\ AuxOff
    /\ kMaxBounces = 0
    /\ kTexLODMode = "RayCones"
    /\ kRayConeMode = "RayTracingGems1"
    /\ kUseAnalyticLights = FALSE
    /\ kUseEmissiveLights = FALSE
    /\ kUseEnvLight = FALSE
    /\ kUseEnvBackground = FALSE
    /\ kUseRoughnessToVariance = FALSE
    /\ kVisualizeSurfaceSpread \in BOOLEAN
    /\ gScreenSpacePixelSpreadAngle \in PixelSpreadVals
    /\ lightCount = 0
    /\ launchIndex = 1
    /\ outputLog = [p \in Pixels |-> <<>>]
    /\ \E valid \in [Pixels -> BOOLEAN] :
         /\ localsAre(startLocals(valid[1]))
         /\ contexts = [p \in Pixels |->
                            IF p = 1 THEN Running ELSE startLocals(valid[p])]

\* the GPU suspends the running invocation and resumes the one of pixel q
Schedule(q) ==
    /\ q # launchIndex
    /\ contexts[q] # Running
    /\ contexts' = [contexts EXCEPT ![launchIndex] = locals, ![q] = Running]
    /\ launchIndex' = q
    /\ resume(contexts[q])
    /\ UNCHANGED <<cfgVars, outputLog, rsVars, shVars, grVars>>

NextDispatch ==
    \/ Next
    \/ \E q \in Pixels : Schedule(q)

SpecDispatch == InitDispatch /\ [][NextDispatch]_vars

\* the position of the invocation of pixel p
InvocationPc(p) == IF p = launchIndex THEN pc ELSE contexts[p][1]

\* C12: with the invocations of a dispatch interleaved in any order, every
\* write to gOutputColor is made by the invocation of that location, an
\* invocation has written nothing before it finishes, and once it has
\* finished, through the visualization return or at the end of rayGen, its
\* location holds exactly one write, the value it stored.
C12_OneWriteAtOwnIndex ==
    \A p \in Pixels :
        /\ \A i \in 1..Len(outputLog[p]) : outputLog[p][i].by = p
        /\ IF InvocationPc(p) \in {"done", "return"}
           THEN Len(outputLog[p]) = 1
           ELSE Len(outputLog[p]) = 0
        /\ (p = launchIndex /\ pc \in {"done", "return"}
              => outputLog[p][1].value = gOutputColor)

C12_Witness ==
    /\ NumPixels >= 2
    /\ \E p \in Pixels : InvocationPc(p) = "return"
    /\ \E p \in Pixels : InvocationPc(p) = "done"
    /\ \A p \in Pixels : InvocationPc(p) \in {"done", "return"}
    /\ \A p \in Pixels : Len(outputLog[p]) = 1

----------------------------------------------------------------------------
(* GodRays render pass (GodRays.cpp).  A float is counted in units of its  *)
(* last place, a double in quarters of that unit; a texture is its width,  *)
(* height and format; Null is a null pointer.                              *)

Null == "null"
NoChange == "unchanged"

\* the doubles a serializer can hold, the floats they narrow to
DoubleVals == {2, 4}
FloatVals == {0, 1}
DoublesPerFloat == 4

\* static_cast<float>(double): round to nearest, ties to even
toFloat(d) ==
    LET q == d \div DoublesPerFloat
        r == d % DoublesPerFloat
    IN IF 2 * r < DoublesPerFloat THEN q
       ELSE IF 2 * r > DoublesPerFloat THEN q + 1
       ELSE IF q % 2 = 0 THEN q ELSE q + 1

\* a float stored as a double (addVariable): exact
toDouble(f) == f * DoublesPerFloat

\* sample counts: create's argument, setNumSamples' arguments, the values
\* the "Num Samples" widget (range 0..1000) can be edited to
CreateSampleVals == {32}
SetSampleVals == {-1, 32}
UiSampleVals == {1000}
LightIndexVals == {1}

\* std::to_string of an int32: whether the text starts with a minus sign,
\* and its decimal digits, most significant first
RECURSIVE digitsOf(_)
digitsOf(n) == IF n < 10 THEN <<n>> ELSE Append(digitsOf(n \div 10), n % 10)

to_string(n) ==
    IF n < 0 THEN [minus |-> TRUE, digits |-> digitsOf(-n)]
    ELSE [minus |-> FALSE, digits |-> digitsOf(n)]

\* no define
NoText == [minus |-> FALSE, digits |-> <<>>]

\* the number that a preprocessor reads from a define's text
RECURSIVE valueOfDigits(_)
valueOfDigits(t) ==
    IF t = <<>> THEN 0
    ELSE 10 * valueOfDigits(SubSeq(t, 1, Len(t) - 1)) + t[Len(t)]

defineValue(t) ==
    IF t.minus THEN -valueOfDigits(t.digits) ELSE valueOfDigits(t.digits)

\* the source textures of execute; width and height agree with pFbo's
\* (the assert of line 177) and the height is positive
SrcTextures ==
    { [width |-> 400, height |-> 300, format |-> "RGBA8"],
      [width |-> 200, height |-> 150, format |-> "RGBA8"],
      [width |-> 800, height |-> 600, format |-> "RGBA8"],
      [width |-> 400, height |-> 300, format |-> "RGBA16F"] }

\* members whose initial value the constructor leaves to the class
\* declaration: the shader is up to date after the constructor's
\* createShader, the light index is the first light
mDirtyDefault == FALSE
mLightIndexDefault == 0

Max(a, b) == IF a >= b THEN a ELSE b

\* a null mpLowResTexture, mpVars before createShader, an empty serializer
NoTexture == [width |-> 0, height |-> 0, format |-> Null]
NoVars == [density |-> 0, decay |-> 0, weight |-> 0, exposer |-> 0,
           lightIndex |-> 0]
NoDict == [threshold |-> 0, mediumDensity |-> 0, mediumDecay |-> 0,
           mediumWeight |-> 0, exposer |-> 0, numSamples |-> 0]

\* createShader: the _NUM_SAMPLES define of the (new or existing) blit
\* program and the settings block of mpVars
createShader(g) ==
    [g EXCEPT !.NUM_SAMPLES = to_string(g.mNumSamples),
              !.mpBlitPass = TRUE,
              !.mpVars = [density |-> g.mMediumDensity,
                          decay |-> g.mMediumDecay,
                          weight |-> g.mMediumWeight,
                          exposer |-> g.mExposer,
                          lightIndex |-> g.mLightIndex]]

\* the constructor; mThreshold is not in the initialiser list and not
\* assigned, so it holds whatever value the object has there (indeterminate)
GodRays(threshold, mediumDensity, mediumDecay, mediumWeight, exposer, numSamples, indeterminate) ==
    createShader(
        [mThreshold |-> indeterminate,
         mMediumDensity |-> mediumDensity,
         mMediumDecay |-> mediumDecay,
         mMediumWeight |-> mediumWeight,
         mNumSamples |-> numSamples,
         mExposer |-> exposer,
         mDirty |-> mDirtyDefault,
         mLightIndex |-> mLightIndexDefault,
         filterThreshold |-> threshold,
         mpBlitPass |-> FALSE,
         NUM_SAMPLES |-> NoText,
         mpVars |-> NoVars,
         mpLowResTexture |-> NoTexture,
         mpTargetFbo |-> Null])

\* create(...) forwards its arguments to the constructor
create(a, indeterminate) ==
    GodRays(a.threshold, a.mediumDensity, a.mediumDecay, a.mediumWeight,
            a.exposer, a.numSamples, indeterminate)

\* the arguments that deserialize passes to create
deserializeArgs(dict) ==
    [threshold |-> toFloat(dict.threshold),
     mediumDensity |-> toFloat(dict.mediumDensity),
     mediumDecay |-> toFloat(dict.mediumDecay),
     mediumWeight |-> toFloat(dict.mediumWeight),
     exposer |-> toFloat(dict.exposer),
     numSamples |-> dict.numSamples]

\* the values that serialize adds to the serializer
serialize(g) ==
    [threshold |-> toDouble(g.mThreshold),
     mediumDensity |-> toDouble(g.mMediumDensity),
     mediumDecay |-> toDouble(g.mMediumDecay),
     mediumWeight |-> toDouble(g.mMediumWeight),
     exposer |-> toDouble(g.mExposer),
     numSamples |-> g.mNumSamples]

\* lines 137-138; 256.0f * aspectRatio truncated to uint32_t is
\* 256 * width / height rounded down (exact for the sizes of SrcTextures)
lowResHeight(tex) == Max(tex.height \div 2, 256)

\* lowResWidth without the aspect-ratio term
lowResWidth_half(tex) == tex.width \div 2

lowResWidth(tex) == Max(tex.width \div 2, (256 * tex.width) \div tex.height)

\* lines 134-145
createFbo(g, tex) ==
    \/ g.mpLowResTexture = NoTexture
    \/ lowResWidth(tex) # g.mpLowResTexture.width
    \/ lowResHeight(tex) # g.mpLowResTexture.height
    \/ tex.format # g.mpLowResTexture.format

updateLowResTexture(g, tex) ==
    IF createFbo(g, tex)
    THEN [g EXCEPT !.mpLowResTexture =
              [width |-> lowResWidth(tex), height |-> lowResHeight(tex),
               format |-> tex.format]]
    ELSE g

\* setNumSamples that does not mark the shader dirty
setNumSamples_clean(g, numSamples) == [g EXCEPT !.mNumSamples = numSamples]

setNumSamples(g, numSamples) ==
    [g EXCEPT !.mNumSamples = numSamples, !.mDirty = TRUE]

\* renderUI when the user has edited the widget e.widget to e.value; the
\* Gui reports a change for at most one widget in a frame
GuiEdits ==
    [widget : {"none"}, value : {0}]
    \cup [widget : {"Medium Threshold", "Medium Density", "Medium Decay",
                    "Medium Weight", "Exposer"}, value : FloatVals]
    \cup [widget : {"Num Samples"}, value : UiSampleVals]
    \cup [widget : {"Light Index"}, value : LightIndexVals]

renderUI(g, e) ==
    IF e.widget = "Medium Threshold"
    THEN [g EXCEPT !.mThreshold = e.value, !.filterThreshold = e.value]
    ELSE IF e.widget = "Medium Density"
    THEN [g EXCEPT !.mMediumDensity = e.value, !.mpVars.density = e.value]
    ELSE IF e.widget = "Medium Decay"
    THEN [g EXCEPT !.mMediumDecay = e.value, !.mpVars.decay = e.value]
    ELSE IF e.widget = "Medium Weight"
    THEN [g EXCEPT !.mMediumWeight = e.value, !.mpVars.weight = e.value]
    ELSE IF e.widget = "Num Samples"
    THEN setNumSamples([g EXCEPT !.mNumSamples = e.value], e.value)
    ELSE IF e.widget = "Light Index"
    THEN [g EXCEPT !.mLightIndex = e.value, !.mpVars.lightIndex = e.value]
    ELSE IF e.widget = "Exposer"
    THEN [g EXCEPT !.mExposer = e.value, !.mpVars.exposer = e.value]
    ELSE g

\* the state stacks of the render context (framework code)
pushFbo(stack, fbo) == Append(stack, fbo)
popFbo(stack) == SubSeq(stack, 1, Len(stack) - 1)
pushGraphicsVars(stack, v) == Append(stack, v)
popGraphicsVars(stack) == SubSeq(stack, 1, Len(stack) - 1)

\* the stacks as the caller of execute has them
CallerContext == [fboStack |-> <<"callerFbo">>, varsStack |-> <<"callerVars">>]

\* execute, lines 179-193
executeShader(g) ==
    IF g.mDirty
    THEN [createShader(g) EXCEPT !.mDirty = FALSE]
    ELSE [g EXCEPT !.mpVars.density = g.mMediumDensity,
                   !.mpVars.decay = g.mMediumDecay,
                   !.mpVars.weight = g.mMediumWeight,
                   !.mpVars.exposer = g.mExposer]

\* execute, lines 208-210
executePush(rc, pFbo) ==
    [fboStack |-> pushFbo(rc.fboStack, pFbo),
     varsStack |-> pushGraphicsVars(rc.varsStack, "mpVars")]

\* executePop without popFbo
executePop_noPopFbo(rc) ==
    [fboStack |-> rc.fboStack,
     varsStack |-> popGraphicsVars(rc.varsStack)]

\* execute, lines 212-213
executePop(rc) ==
    [fboStack |-> popFbo(rc.fboStack),
     varsStack |-> popGraphicsVars(rc.varsStack)]

\* nothing observed yet
NoObserved ==
    [executed |-> FALSE, setNumSamplesCalled |-> FALSE, serialized |-> FALSE,
     src |-> NoTexture, createdTexture |-> FALSE, ranCreateShader |-> FALSE,
     before |-> CallerContext]

\* the arguments of a direct create call
CreateArgs ==
    { [threshold |-> f, mediumDensity |-> f, mediumDecay |-> f,
       mediumWeight |-> f, exposer |-> f, numSamples |-> n] :
      f \in FloatVals, n \in CreateSampleVals }

\* the state after GodRays::create
InitGodRays ==
    /\ RayTracerOff
    /\ RoughnessOff
    /\ ShadowOff
    /\ grPc = "idle"
    /\ \E a \in CreateArgs, indeterminate \in FloatVals :
         /\ godRays = create(a, indeterminate)
         /\ serializer = [in |-> NoDict, args |-> a, out |-> NoDict]
    /\ renderContext = CallerContext
    /\ grObserved = NoObserved

SetNumSamples ==
    /\ grPc = "idle"
    /\ \E numSamples \in SetSampleVals :
         godRays' = setNumSamples(godRays, numSamples)
    /\ grObserved' = [grObserved EXCEPT !.setNumSamplesCalled = TRUE]
    /\ UNCHANGED <<rtVars, rsVars, shVars, grPc, renderContext, serializer>>

RenderUI ==
    /\ grPc = "idle"
    /\ \E e \in GuiEdits :
         /\ godRays' = renderUI(godRays, e)
         /\ grObserved' =
                [grObserved EXCEPT !.setNumSamplesCalled =
                     @ \/ e.widget = "Num Samples"]
    /\ UNCHANGED <<rtVars, rsVars, shVars, grPc, renderContext, serializer>>

(* execute up to the draw call.  entry is the overload called: with        *)
(* "renderData" (lines 160-168) the target is mpTargetFbo, created on      *)
(* first use; otherwise it is the caller's pFbo.  The scene's light and    *)
(* camera values written to mpVars are not part of the model.              *)
ExecuteBegin ==
    /\ grPc = "idle"
    /\ \E entry \in {"renderData", "fbo", "textures"}, pSrcTex \in SrcTextures :
         LET a == IF entry = "renderData"
                  THEN [godRays EXCEPT !.mpTargetFbo = "mpTargetFbo"]
                  ELSE godRays
             pFbo == IF entry = "renderData" THEN a.mpTargetFbo ELSE "pFbo"
             b == executeShader(a)
         IN /\ godRays' = updateLowResTexture(b, pSrcTex)
            /\ renderContext' = executePush(renderContext, pFbo)
            /\ grObserved' =
                   [grObserved EXCEPT !.setNumSamplesCalled = FALSE,
                                      !.src = pSrcTex,
                                      !.createdTexture = createFbo(b, pSrcTex),
                                      !.ranCreateShader = a.mDirty,
                                      !.before = renderContext]
    /\ grPc' = "draw"
    /\ UNCHANGED <<rtVars, rsVars, shVars, serializer>>

\* execute from the draw call: lines 211-213
ExecuteEnd ==
    /\ grPc = "draw"
    /\ renderContext' = executePop(renderContext)
    /\ grObserved' = [grObserved EXCEPT !.executed = TRUE]
    /\ grPc' = "idle"
    /\ UNCHANGED <<rtVars, rsVars, shVars, godRays, serializer>>

NextGodRays ==
    \/ SetNumSamples
    \/ RenderUI
    \/ ExecuteBegin
    \/ ExecuteEnd

SpecGodRays == InitGodRays /\ [][NextGodRays]_vars

(* The round trip through the serializer: a serializer that holds the six  *)
(* values of a pass, deserialize, then serialize of the pass created.      *)

Dicts ==
    [threshold : DoubleVals, mediumDensity : DoubleVals,
     mediumDecay : DoubleVals, mediumWeight : DoubleVals,
     exposer : DoubleVals, numSamples : SetSampleVals]

InitRoundTrip ==
    /\ RayTracerOff
    /\ RoughnessOff
    /\ ShadowOff
    /\ grPc = "serialized"
    /\ godRays = <<>>
    /\ \E dict \in Dicts :
         serializer = [in |-> dict, args |-> NoDict, out |-> NoDict]
    /\ renderContext = CallerContext
    /\ grObserved = NoObserved

Deserialize ==
    /\ grPc = "serialized"
    /\ \E indeterminate \in FloatVals :
         godRays' = create(deserializeArgs(serializer.in), indeterminate)
    /\ serializer' = [serializer EXCEPT !.args = deserializeArgs(serializer.in)]
    /\ grPc' = "idle"
    /\ UNCHANGED <<rtVars, rsVars, shVars, renderContext, grObserved>>

Serialize ==
    /\ grPc = "idle"
    /\ ~grObserved.serialized
    /\ serializer' = [serializer EXCEPT !.out = serialize(godRays)]
    /\ grObserved' = [grObserved EXCEPT !.serialized = TRUE]
    /\ UNCHANGED <<rtVars, rsVars, shVars, grPc, godRays, renderContext>>

NextRoundTrip ==
    \/ Deserialize
    \/ Serialize

SpecRoundTrip == InitRoundTrip /\ [][NextRoundTrip]_vars

\* C16: a call of updateLowResTexture creates a texture exactly when none is
\* held or the held one differs from the required width
\* max(srcWidth / 2, 256 * aspect), height max(srcHeight / 2, 256) or format;
\* otherwise the held texture is kept; after the call the held texture has
\* exactly the required width, height and format.
C16_LowResTextureAsRequired ==
    [][grPc = "idle" /\ grPc' = "draw" =>
        LET src == grObserved'.src
            required ==
                [width |-> Max(src.width \div 2,
                               (256 * src.width) \div src.height),
                 height |-> Max(src.height \div 2, 256),
                 format |-> src.format]
            held == godRays.mpLowResTexture
        IN /\ grObserved'.createdTexture <=>
                  (held = NoTexture \/ held # required)
           /\ (~grObserved'.createdTexture =>
                  godRays'.mpLowResTexture = held)
           /\ godRays'.mpLowResTexture = required]_vars

\* two sources of different size that need the same low-res texture
C16_Witness ==
    /\ grPc = "draw"
    /\ grObserved.executed
    /\ ~grObserved.createdTexture
    /\ grObserved.src.width = 200
    /\ godRays.mpLowResTexture.width = 341
    /\ godRays.mpLowResTexture.height = 256

\* C17: the six values that serialize writes for a pass made by deserialize
\* are the six arguments deserialize passed to create.
C17_RoundTrip ==
    grObserved.serialized =>
        /\ serializer.out.threshold = toDouble(serializer.args.threshold)
        /\ serializer.out.mediumDensity = toDouble(serializer.args.mediumDensity)
        /\ serializer.out.mediumDecay = toDouble(serializer.args.mediumDecay)
        /\ serializer.out.mediumWeight = toDouble(serializer.args.mediumWeight)
        /\ serializer.out.exposer = toDouble(serializer.args.exposer)
        /\ serializer.out.numSamples = serializer.args.numSamples

\* C18: every execute ends with mDirty false and the _NUM_SAMPLES define
\* equal to mNumSamples, whatever calls of setNumSamples and renderUI came
\* before it, and it runs createShader exactly when setNumSamples was
\* called (directly or by renderUI) since the previous execute or, for the
\* first execute, since the pass was created.
C18_DirtyFlagProtocol ==
    /\ [][grPc = "idle" /\ grPc' = "draw" =>
            /\ ~godRays'.mDirty
            /\ defineValue(godRays'.NUM_SAMPLES) = godRays'.mNumSamples
            /\ grObserved'.ranCreateShader <=> grObserved.setNumSamplesCalled]_vars
    /\ [][grPc = "draw" /\ grPc' = "idle" =>
            /\ ~godRays'.mDirty
            /\ defineValue(godRays'.NUM_SAMPLES) = godRays'.mNumSamples]_vars

C18_Witness ==
    /\ grPc = "idle"
    /\ grObserved.executed
    /\ grObserved.ranCreateShader
    /\ ~godRays.mDirty
    /\ godRays.mNumSamples = 1000
    /\ godRays.NUM_SAMPLES.digits = <<1, 0, 0, 0>>

\* C19: execute pushes the target FBO and its graphics vars for the draw and
\* pops both afterwards: during the draw the stacks are the caller's with
\* one entry added on each, and when execute has returned, after any number
\* of executes, they are the caller's stacks again.
C19_StacksBalanced ==
    /\ [](grPc = "idle" => renderContext = CallerContext)
    /\ [](grPc = "draw" =>
            /\ Len(renderContext.fboStack) = Len(CallerContext.fboStack) + 1
            /\ Len(renderContext.varsStack) = Len(CallerContext.varsStack) + 1
            /\ renderContext.varsStack[Len(renderContext.varsStack)] = "mpVars")
    /\ [][grPc = "draw" /\ grPc' = "idle" =>
            renderContext' = grObserved.before]_vars

C19_Witness ==
    /\ grPc = "idle"
    /\ grObserved.executed
    /\ renderContext = CallerContext
    /\ godRays.mpTargetFbo = "mpTargetFbo"

\* C13: the payload's pathLength never exceeds MAX_BOUNCES, and with
\* MAX_BOUNCES = 0 a closest hit traces no shadow ray for analytic direct
\* light and generates no reflection ray: it terminates the path with
\* pathLength still 0 and origin, direction and throughput as they were.
C13_PathLengthBounded ==
    /\ [](rayData.created => rayData.pathLength <= kMaxBounces)
    /\ [][kMaxBounces = 0 /\ ClosestHitStep =>
            /\ shadowRays' = shadowRays
            /\ rayData'.terminated
            /\ rayData'.pathLength = 0
            /\ rayData'.origin = rayData.origin
            /\ rayData'.direction = rayData.direction
            /\ rayData'.thp = rayData.thp]_vars

C13_Witness ==
    /\ kMaxBounces = 0
    /\ kUseAnalyticLights
    /\ lightCount >= 1
    /\ hit.kind = "closest"
    /\ rayData.terminated
    /\ rayData.pathLength = 0

\* a step of rayGen that shades a valid primary hit
PrimaryStep == pc = "start" /\ pc' \in {"loop", "return"}

\* C15: the light emitted at the primary hit is added to the pixel colour
\* whatever USE_EMISSIVE_LIGHTS is, while a scatter ray's closest hit adds
\* the emitted light of its surface (times the throughput) to the payload
\* radiance exactly when USE_EMISSIVE_LIGHTS is set, the hit that
\* terminates on the bounce limit included.
C15_EmissiveAtPrimaryAndScatter ==
    /\ [][PrimaryStep => outColor' = VAdd(sd'.emissive, sd'.direct)]_vars
    /\ [][ClosestHitStep =>
            rayData'.radiance =
                VAdd(VAdd(rayData.radiance,
                          IF kUseEmissiveLights
                          THEN VMul(rayData.thp, hit'.emissive) ELSE Zero3),
                     IF kUseAnalyticLights /\ ~rayData'.terminated
                     THEN VMul(rayData.thp, hit'.Lr) ELSE Zero3)]_vars

C15_Witness ==
    /\ pc = "done"
    /\ ~kUseEmissiveLights
    /\ sd.emissive # Zero3
    /\ VGeq(outColor, sd.emissive)
    /\ hit.kind = "closest"
    /\ hit.emissive # Zero3
    /\ rayData.terminated
    /\ rayData.radiance = Zero3

====
